---- MODULE Spec2Model ----
(***************************************************************************)
(* Model of the Discord history bot: the request handlers of              *)
(* commands/counting.py, commands/ai.py and commands/history.py, the       *)
(* services they call (message_service, analytics_service, ai_service),    *)
(* the validators and the embed builders.                                  *)
(*                                                                         *)
(* Spec      one command invocation, followed from dispatch to its last    *)
(*           user-visible message; the chat platform, the image host and   *)
(*           the Ollama service are the environment.                       *)
(* FairSpec  Spec with weak fairness of every step (collaborators answer). *)
(* LoopSpec  several invocations sharing the single asyncio event loop.    *)
(* PureSpec  one call of a function of the validators, the analytics       *)
(*           service, the formatters or the embed builders, on arguments   *)
(*           drawn from bounded sets.                                      *)
(***************************************************************************)
EXTENDS Integers, Sequences, FiniteSets, TLC

VARIABLES
    cmd,            \* the slash command of this invocation
    arg,            \* its argument: user (messagecount), timeframe (summarize)
    pc,             \* position of the handler
    sent,           \* user-visible messages: followup.send and status_msg.edit
    called,         \* pipeline functions executed so far
    historyLog,     \* one entry per channel.history() request
    fetchRet,       \* how the fetch call ended: a list, or a raised exception
    time_desc,      \* summarize: description of the time window
    df_users,       \* summarize: the non-bot records, sorted by timestamp
    image_urls,     \* summarize: URLs collected from the records
    idx,            \* analyze_images: 1-based index of the image in progress
    descriptions,   \* analyze_images: descriptions appended so far
    downloads,      \* URLs handed to download_image, in call order
    visions,        \* URLs whose bytes were handed to ollama.generate
    imgLog,         \* per processed image: "ok", "download_failed", "vision_failed"
    stageRaised,    \* analyze_images raised outside its per-image handler
    has_images,     \* generate_summary: image context was added to the prompt
    chatLog,        \* one entry per ollama.chat call: the response or the error
    nChannels,      \* globaldailycount: number of text channels of the guild
    chIdx,          \* fetch_messages_from_guild: channel being visited
    guildLog,       \* per visited channel: permission, history outcome
    messages_data,  \* fetch_messages_from_guild: records collected so far
    running,        \* LoopSpec: task executing on the event-loop thread, or NoTask
    tpc,            \* LoopSpec: position of each task
    timg,           \* LoopSpec: images each task still has to analyze
    fn,             \* PureSpec: the function applied
    fnIn,           \* PureSpec: its arguments
    fnOut,          \* PureSpec: what it returned
    fnDone          \* PureSpec: the function has returned

reqVars  == <<cmd, arg, pc, sent, called, historyLog, fetchRet>>
sumVars  == <<time_desc, df_users, image_urls, idx, descriptions, downloads,
              visions, imgLog, stageRaised, has_images, chatLog>>
gldVars  == <<nChannels, chIdx, guildLog, messages_data>>
loopVars == <<running, tpc, timg>>
fnVars   == <<fn, fnIn, fnOut, fnDone>>
vars     == <<reqVars, sumVars, gldVars, loopVars, fnVars>>

---------------------------------------------------------------------------
(* Bounds of the model *)

\* longest channel history the platform returns to a single-channel fetch
MaxMsgs == 2
\* most text channels in the guild
MaxChannels == 2
\* longest history of one channel in the guild-wide sweep
MaxChanMsgs == 1
\* concurrent invocations on the event loop
NumTasks == 3
\* most images of one invocation on the event loop
MaxLoopImages == 2
\* largest magnitude given to the validators
MaxMagnitude == 170
\* longest record list given to the analytics functions
MaxRecords == 3
\* largest max_entries given to format_leaderboard
MaxEntries == 3

(* Program constants *)

MAX_MESSAGES_FOR_AI == 200
MAX_DAYS_LOOKBACK == 7
MAX_HOURS_LOOKBACK == 168
\* analyze_images: image_urls[:5]
MaxImages == 5
\* create_fallback_summary_embed: summary_text[:4000]
FallbackLimit == 4000

---------------------------------------------------------------------------
(* Helpers on sequences *)

Min(a, b) == IF a <= b THEN a ELSE b

Range(s) == {s[i] : i \in DOMAIN s}

RECURSIVE Flatten(_)
Flatten(ss) == IF ss = <<>> THEN <<>> ELSE Head(ss) \o Flatten(Tail(ss))

Reverse(s) == [i \in 1..Len(s) |-> s[Len(s) + 1 - i]]

SeqsUpTo(S, n) == UNION {[1..k -> S] : k \in 0..n}

\* s[:n] of Python
Prefix(s, n) == SubSeq(s, 1, Min(n, Len(s)))

---------------------------------------------------------------------------
(* Strings.  TLC cannot look inside a string, so str.lower, str.strip and  *)
(* int() are tables over the vocabulary of the model.                      *)

StrLower(s) ==
    CASE s = "Hours" -> "hours"
      [] s = "HOUR"  -> "hour"
      [] s = "DAYS"  -> "days"
      [] s = "Day"   -> "day"
      [] s = "HOURS" -> "hours"
      [] s = "Hour"  -> "hour"
      [] s = "Weeks" -> "weeks"
      [] s = "Positive" -> "positive"
      [] s = "NEGATIVE" -> "negative"
      [] s = "Mixed" -> "mixed"
      [] OTHER -> s

StrStrip(s) ==
    CASE s = " days " -> "days"
      [] s = "hour "  -> "hour"
      [] OTHER -> s

StrCapitalize(s) ==
    CASE s = "positive" -> "Positive"
      [] s = "neutral"  -> "Neutral"
      [] s = "negative" -> "Negative"
      [] s = "mixed"    -> "Mixed"
      [] OTHER -> s

\* int(): the words that are integer literals
IntLiterals == {"-1", "0", "1", "2", "8", "169"}

IntOf(w) ==
    CASE w = "-1" -> -1
      [] w = "0" -> 0
      [] w = "1" -> 1
      [] w = "2" -> 2
      [] w = "8" -> 8
      [] w = "169" -> 169

\* str.split(): the words of the text; words are separated by " "
Split(text) == SelectSeq(text, LAMBDA w : w # " ")

---------------------------------------------------------------------------
(* utils/validators.py *)

\* mutant of normalize_time_unit: the case of the token is kept
NormalizeKeepsCase(unit) ==
    IF unit = "" THEN "days"
    ELSE LET normalized == StrStrip(unit)
         IN  CASE normalized = "hour" -> "hours"
               [] normalized = "day"  -> "days"
               [] OTHER -> normalized

normalize_time_unit(unit) ==
    IF unit = "" THEN "days"
    ELSE LET normalized == StrStrip(StrLower(unit))
         IN  CASE normalized = "hour" -> "hours"
               [] normalized = "day"  -> "days"
               [] OTHER -> normalized

\* mutant of validate_timeframe: the lower bound is 0
ValidateFromZero(timeframe, unit_in) ==
    LET unit == normalize_time_unit(unit_in)
        bound == IF unit = "days" THEN MAX_DAYS_LOOKBACK ELSE MAX_HOURS_LOOKBACK
    IN  IF unit \notin {"days", "hours"}
        THEN [is_valid |-> FALSE,
              error |-> [text |-> "Invalid time unit! Must be 'hours' or 'days'.",
                         bound |-> 0]]
        ELSE IF timeframe < 0 \/ timeframe > bound
        THEN [is_valid |-> FALSE,
              error |-> [text |-> IF unit = "days"
                                  THEN "Timeframe must be between 1 and N days!"
                                  ELSE "Timeframe must be between 1 and N hours (D days)!",
                         bound |-> bound]]
        ELSE [is_valid |-> TRUE, error |-> [text |-> "", bound |-> 0]]

\* the (is_valid, error_message) pair; the message keeps the bound it names
validate_timeframe(timeframe, unit_in) ==
    LET unit == normalize_time_unit(unit_in)
    IN  IF unit = "days"
        THEN IF timeframe < 1 \/ timeframe > MAX_DAYS_LOOKBACK
             THEN [is_valid |-> FALSE,
                   error |-> [text |-> "Timeframe must be between 1 and N days!",
                              bound |-> MAX_DAYS_LOOKBACK]]
             ELSE [is_valid |-> TRUE, error |-> [text |-> "", bound |-> 0]]
        ELSE IF unit = "hours"
        THEN IF timeframe < 1 \/ timeframe > MAX_HOURS_LOOKBACK
             THEN [is_valid |-> FALSE,
                   error |-> [text |-> "Timeframe must be between 1 and N hours (D days)!",
                              bound |-> MAX_HOURS_LOOKBACK]]
             ELSE [is_valid |-> TRUE, error |-> [text |-> "", bound |-> 0]]
        ELSE [is_valid |-> FALSE,
              error |-> [text |-> "Invalid time unit! Must be 'hours' or 'days'.",
                         bound |-> 0]]

\* mutant of calculate_time_window: the unit word is always plural
WindowAlwaysPlural(now, timeframe, unit_in) ==
    LET unit == normalize_time_unit(unit_in)
    IN  IF unit = "days"
        THEN [time_start |-> now - 24 * timeframe,
              time_desc  |-> [n |-> timeframe, word |-> "days"]]
        ELSE [time_start |-> now - timeframe,
              time_desc  |-> [n |-> timeframe, word |-> "hours"]]

\* the (time_start, time_desc) pair; instants are counted in hours,
\* time_desc "past {n} {word}" is kept as its two parts
calculate_time_window(now, timeframe, unit_in) ==
    LET unit == normalize_time_unit(unit_in)
    IN  IF unit = "days"
        THEN [time_start |-> now - 24 * timeframe,
              time_desc  |-> [n |-> timeframe,
                              word |-> IF timeframe > 1 THEN "days" ELSE "day"]]
        ELSE [time_start |-> now - timeframe,
              time_desc  |-> [n |-> timeframe,
                              word |-> IF timeframe > 1 THEN "hours" ELSE "hour"]]

NoTimeDesc == [n |-> 0, word |-> ""]

---------------------------------------------------------------------------
(* The chat platform: messages, channels, exceptions *)

NoExc == [type |-> "none", desc |-> ""]
Forbidden == [type |-> "Forbidden", desc |-> "403 Forbidden: Missing Access"]

\* errors of channel.history() other than discord.Forbidden
TransportErrors ==
    {[type |-> "HTTPException", desc |-> "503 Service Unavailable"],
     [type |-> "TimeoutError", desc |-> "timed out"]}

Att(url, ctype) == [url |-> url, content_type |-> ctype]

\* the messages a channel may hold; ts is set when the history is built
MsgKinds ==
    {[user_id |-> 1, user_name |-> "alice", is_bot |-> FALSE, content |-> "hi",
      type |-> "default", attachments |-> <<>>],
     [user_id |-> 2, user_name |-> "bob", is_bot |-> FALSE, content |-> "look",
      type |-> "default",
      attachments |-> <<Att(1, "image/png"), Att(2, "text/plain"),
                        Att(3, "image/jpeg"), Att(4, "none"), Att(5, "image/gif")>>],
     [user_id |-> 1, user_name |-> "alice", is_bot |-> FALSE, content |-> "",
      type |-> "default", attachments |-> <<Att(1, "image/png")>>],
     [user_id |-> 9, user_name |-> "helper", is_bot |-> TRUE, content |-> "beep",
      type |-> "default", attachments |-> <<>>],
     [user_id |-> 2, user_name |-> "bob", is_bot |-> FALSE, content |-> "",
      type |-> "pins_add", attachments |-> <<>>]}

\* the messages of the guild-wide sweep, which reads no attachment
GuildMsgKinds == {k \in MsgKinds : k.attachments = <<>>}

\* message number i of a channel (1 is the oldest): created_at = i, and the
\* URLs of its attachments are its own
Stamp(kind, i) ==
    [user_id |-> kind.user_id, user_name |-> kind.user_name,
     is_bot |-> kind.is_bot, content |-> kind.content, type |-> kind.type,
     created_at |-> i,
     attachments |-> [k \in DOMAIN kind.attachments |->
                        Att(10 * i + kind.attachments[k].url,
                            kind.attachments[k].content_type)]]

\* the channel's messages, oldest first
ChannelOf(kinds) == [i \in DOMAIN kinds |-> Stamp(kinds[i], i)]

\* channel.history(oldest_first=...): newest first unless asked otherwise
History(chan, oldest_first) == IF oldest_first THEN chan ELSE Reverse(chan)

\* str.startswith("image/") of attachment.content_type
IsImageType(ctype) == ctype \in {"image/png", "image/jpeg", "image/gif"}

---------------------------------------------------------------------------
(* services/message_service.py *)

\* mutant of fetch_messages_from_channel: discord.Forbidden is swallowed and
\* the messages read so far are returned
FetchSwallowsForbidden(yielded, ending) ==
    IF ending \in {NoExc, Forbidden}
    THEN [status |-> "list", value |-> yielded, exc |-> NoExc]
    ELSE [status |-> "raised", value |-> <<>>, exc |-> ending]

\* mutant of fetch_messages_from_channel: the general handler logs the error
\* and returns the messages read so far
FetchSwallowsErrors(yielded, ending) ==
    IF ending # Forbidden
    THEN [status |-> "list", value |-> yielded, exc |-> NoExc]
    ELSE [status |-> "raised", value |-> <<>>, exc |-> ending]

\* The history iterator yields the messages and then ends normally (NoExc) or
\* raises the exception.  The list is returned only when the iteration ended
\* normally; both handlers re-raise.
fetch_messages_from_channel(yielded, ending) ==
    IF ending = NoExc
    THEN [status |-> "list", value |-> yielded, exc |-> NoExc]
    ELSE [status |-> "raised", value |-> <<>>, exc |-> ending]

NoFetch == [status |-> "none", value |-> <<>>, exc |-> NoExc]

ImagesOf(msg) ==
    LET imgs == SelectSeq(msg.attachments, LAMBDA a : IsImageType(a.content_type))
    IN  [k \in DOMAIN imgs |-> imgs[k].url]

extract_message_data(messages) ==
    [i \in DOMAIN messages |->
        [user_id   |-> messages[i].user_id,
         user_name |-> messages[i].user_name,
         is_bot    |-> messages[i].is_bot,
         content   |-> messages[i].content,
         timestamp |-> messages[i].created_at,
         images    |-> ImagesOf(messages[i])]]

\* the record fetch_messages_from_guild builds for one message
GuildRecord(message, channel_name) ==
    [user_id      |-> message.user_id,
     user_name    |-> message.user_name,
     is_bot       |-> message.is_bot,
     channel_name |-> channel_name,
     content      |-> message.content,
     timestamp    |-> message.created_at]

\* mutant of GuildRecordsOf: the messages of system types are kept
GuildRecordsOfAll(yielded, channel_name) ==
    [i \in DOMAIN yielded |-> GuildRecord(yielded[i], channel_name)]

\* the body of the async-for of fetch_messages_from_guild over the messages
\* one channel yielded: system messages are skipped
GuildRecordsOf(yielded, channel_name) ==
    LET kept == SelectSeq(yielded, LAMBDA m : m.type = "default")
    IN  [i \in DOMAIN kept |-> GuildRecord(kept[i], channel_name)]

\* mutant of format_messages_for_ai: the first max_messages lines are kept
FormatKeepsFirst(messages, max_messages) ==
    LET withText == SelectSeq(messages, LAMBDA m : m.content # "")
        formatted == [i \in DOMAIN withText |->
                        [user_name |-> withText[i].user_name,
                         content   |-> withText[i].content]]
    IN  IF max_messages # 0 /\ Len(formatted) > max_messages
        THEN [banner |-> max_messages, lines |-> SubSeq(formatted, 1, max_messages)]
        ELSE [banner |-> 0, lines |-> formatted]

\* the text is kept as its banner (0: none) and its "{user_name}: {content}" lines
format_messages_for_ai(messages, max_messages) ==
    LET withText == SelectSeq(messages, LAMBDA m : m.content # "")
        formatted == [i \in DOMAIN withText |->
                        [user_name |-> withText[i].user_name,
                         content   |-> withText[i].content]]
    IN  IF max_messages # 0 /\ Len(formatted) > max_messages
        THEN [banner |-> max_messages,
              lines  |-> SubSeq(formatted, Len(formatted) - max_messages + 1,
                                Len(formatted))]
        ELSE [banner |-> 0, lines |-> formatted]

\* mutant of IsBlankText: the handler misses its check of the transcript
NeverBlank(text) == FALSE

\* not formatted_text or formatted_text.strip() == ""
IsBlankText(text) == text.banner = 0 /\ text.lines = <<>>

---------------------------------------------------------------------------
(* services/analytics_service.py.  A DataFrame is its columns and its rows *)

\* pd.DataFrame(records): the columns are the keys of the records, so the
\* frame of an empty list has no column
create_dataframe(data) ==
    [columns |-> UNION {DOMAIN data[i] : i \in DOMAIN data}, rows |-> data,
     exc |-> NoExc]

KeyError(column) == [type |-> "KeyError", desc |-> column]

\* df[~df["is_bot"]]: selecting a column the frame does not have raises
filter_user_messages_df(df) ==
    IF "is_bot" \in df.columns
    THEN [columns |-> df.columns,
          rows |-> SelectSeq(df.rows, LAMBDA r : ~r.is_bot), exc |-> NoExc]
    ELSE [columns |-> {}, rows |-> <<>>, exc |-> KeyError("is_bot")]

get_user_message_count(df, user_id) ==
    Len(SelectSeq(df.rows, LAMBDA r : r.user_id = user_id))

\* (user_count / total_messages) * 100, kept as the fraction num / den
get_user_percentage(df, user_id) ==
    IF Len(df.rows) = 0
    THEN [num |-> 0, den |-> 1]
    ELSE [num |-> get_user_message_count(df, user_id) * 100, den |-> Len(df.rows)]

nunique(df, column) == Cardinality({df.rows[i][column] : i \in DOMAIN df.rows})

get_message_stats(df) ==
    [total_messages |-> Len(df.rows), unique_users |-> nunique(df, "user_id")]

get_channel_stats(df) ==
    [total_messages   |-> get_message_stats(df).total_messages,
     unique_users     |-> get_message_stats(df).unique_users,
     channels_checked |-> IF "channel_name" \in df.columns
                          THEN nunique(df, "channel_name") ELSE 0]

\* a call of get_message_stats: df["user_id"] raises on a frame without
\* that column
get_message_stats_call(df) ==
    IF "user_id" \notin df.columns
    THEN [exc |-> KeyError("user_id"), value |-> [total_messages |-> 0, unique_users |-> 0]]
    ELSE [exc |-> NoExc, value |-> get_message_stats(df)]

\* the order of str on the display names of the model
NameRank(name) ==
    CASE name = "alice"  -> 1
      [] name = "alicia" -> 2
      [] name = "bob"    -> 3
      [] name = "carol"  -> 4
      [] name = "helper" -> 5
      [] OTHER -> 6

\* the order of the group keys (user_id, user_name)
KeyLess(a, b) ==
    \/ a.user_id < b.user_id
    \/ a.user_id = b.user_id /\ NameRank(a.user_name) < NameRank(b.user_name)

\* df.groupby(["user_id", "user_name"]).size().reset_index(name="count"):
\* one row per key, in the order of the keys (sort=True), with its size
groupby_size(rows) ==
    LET keys == {[user_id |-> rows[i].user_id, user_name |-> rows[i].user_name] :
                    i \in DOMAIN rows}
        n == Cardinality(keys)
        ordered == CHOOSE f \in [1..n -> keys] :
                      \A i, j \in 1..n : i < j => KeyLess(f[i], f[j])
    IN  [g \in 1..n |->
            [user_id   |-> ordered[g].user_id,
             user_name |-> ordered[g].user_name,
             count     |-> Len(SelectSeq(rows, LAMBDA r :
                                 /\ r.user_id = ordered[g].user_id
                                 /\ r.user_name = ordered[g].user_name))]]

\* the orders of the rows that are descending by count
DescendingOrders(rows) ==
    LET n == Len(rows)
        perms == {f \in [1..n -> 1..n] : \A i, j \in 1..n : i # j => f[i] # f[j]}
    IN  {[k \in 1..n |-> rows[f[k]]] :
            f \in {g \in perms : \A i \in 1..n, j \in 1..n :
                                    i < j => rows[g[i]].count >= rows[g[j]].count}}

\* the results count_messages_by_user may return.  sort_values("count",
\* ascending=False) is called without kind, that is with the quicksort of
\* the array library, which does not fix the order of rows of equal count:
\* every descending order is a possible result.  Grouping a frame without
\* the key columns raises KeyError.
count_messages_by_user(df) ==
    IF "user_id" \notin df.columns
    THEN {[exc |-> KeyError("user_id"), rows |-> <<>>]}
    ELSE {[exc |-> NoExc, rows |-> o] : o \in DescendingOrders(groupby_size(df.rows))}

\* max_entries: None, or an int
NoMax == [given |-> FALSE, value |-> 0]
MaxOf(n) == [given |-> TRUE, value |-> n]

\* DataFrame.head(n): the first n rows; all but the last -n rows when n < 0
Head_n(rows, n) ==
    IF n >= 0 THEN SubSeq(rows, 1, Min(n, Len(rows)))
    ELSE SubSeq(rows, 1, IF Len(rows) + n > 0 THEN Len(rows) + n ELSE 0)

\* "if max_entries:" is false for None and for 0
format_leaderboard(user_counts, max_entries) ==
    LET kept == IF max_entries.given /\ max_entries.value # 0
                THEN Head_n(user_counts, max_entries.value)
                ELSE user_counts
    IN  [k \in DOMAIN kept |->
            [rank |-> k, user_name |-> kept[k].user_name, count |-> kept[k].count]]

\* df.sort_values("timestamp"): insertion of each row after the rows that are
\* not later than it
RECURSIVE SortByTimestamp(_)
SortByTimestamp(rows) ==
    IF rows = <<>> THEN <<>>
    ELSE LET rest == SortByTimestamp(Tail(rows))
             r    == Head(rows)
             before == SelectSeq(rest, LAMBDA x : x.timestamp < r.timestamp)
             after  == SelectSeq(rest, LAMBDA x : x.timestamp >= r.timestamp)
         IN  before \o <<r>> \o after

\* the loop of summarize over messages_list: image_urls.extend(images)
CollectImageUrls(messages_list) ==
    Flatten([i \in DOMAIN messages_list |-> messages_list[i].images])

---------------------------------------------------------------------------
(* Texts of the completion service.  A text is a sequence of atoms: the    *)
(* backquote BQ, the word json, the line break NL, the blank, a whole JSON *)
(* document, or a word of prose.                                           *)

Whitespace == {" ", "NL"}

RECURSIVE LStrip(_)
LStrip(text) ==
    IF text # <<>> /\ Head(text) \in Whitespace THEN LStrip(Tail(text)) ELSE text

\* str.strip()
Strip(text) == Reverse(LStrip(Reverse(LStrip(text))))

OccursAt(text, sep, i) ==
    /\ i >= 1
    /\ i + Len(sep) - 1 <= Len(text)
    /\ SubSeq(text, i, i + Len(sep) - 1) = sep

StartsWith(text, sep) == OccursAt(text, sep, 1)
EndsWith(text, sep) == OccursAt(text, sep, Len(text) - Len(sep) + 1)

\* str.find(sep, i): the first occurrence at or after i, 0 when there is none
Find(text, sep, i) ==
    LET hits == {j \in i..Len(text) : OccursAt(text, sep, j)}
    IN  IF hits = {} THEN 0 ELSE CHOOSE j \in hits : \A k \in hits : j <= k

\* text.split(sep)[1], for a text in which sep occurs
SplitSecond(text, sep) ==
    LET first == Find(text, sep, 1)
        from  == first + Len(sep)
        next  == Find(text, sep, from)
    IN  SubSeq(text, from, IF next = 0 THEN Len(text) ELSE next - 1)

\* text.rsplit(sep, 1)[0], for a text in which sep occurs
RSplitFirst(text, sep) ==
    LET hits == {j \in 1..Len(text) : OccursAt(text, sep, j)}
        last == CHOOSE j \in hits : \A k \in hits : k <= j
    IN  SubSeq(text, 1, last - 1)

Fence == <<"BQ", "BQ", "BQ">>
JsonFence == <<"BQ", "BQ", "BQ", "json">>

---------------------------------------------------------------------------
(* services/ai_service.py *)

clean_json_response(text) ==
    LET t1 == IF StartsWith(text, JsonFence) THEN SplitSecond(text, JsonFence) ELSE text
        t2 == IF StartsWith(t1, Fence) THEN SplitSecond(t1, Fence) ELSE t1
        t3 == IF EndsWith(t2, Fence) THEN RSplitFirst(t2, Fence) ELSE t2
    IN  Strip(t3)

\* the JSON documents of the model and the values json.loads gives for them
JsonAtoms == {"{full}", "{Mixed}", "{no_sentiment}", "{null_sentiment}", "[list]"}

JsonValue(atom) ==
    CASE atom = "{full}" ->
           [type |-> "dict", keys |-> {"overview", "main_topics", "key_points",
                                       "sentiment", "notable_moments"},
            overview |-> "they talked", sentiment |-> "Positive"]
      [] atom = "{Mixed}" ->
           [type |-> "dict", keys |-> {"overview", "sentiment"},
            overview |-> "they talked", sentiment |-> "Mixed"]
      [] atom = "{no_sentiment}" ->
           [type |-> "dict", keys |-> {"overview"},
            overview |-> "they talked", sentiment |-> ""]
      [] atom = "{null_sentiment}" ->
           [type |-> "dict", keys |-> {"overview", "sentiment"},
            overview |-> "they talked", sentiment |-> "None"]
      [] atom = "[list]" ->
           [type |-> "list", keys |-> {}, overview |-> "", sentiment |-> ""]

NoValue == [type |-> "none", keys |-> {}, overview |-> "", sentiment |-> ""]

JSONDecodeError == [type |-> "JSONDecodeError", desc |-> "Expecting value"]

\* a JSON document written with several atoms: an object whose overview
\* string holds a code fence, {"overview": "use BQ BQ BQ py"}
FenceInString == <<"{overview:use", "BQ", "BQ", "BQ", "py}">>

FenceInStringValue ==
    [type |-> "dict", keys |-> {"overview"}, overview |-> "use code",
     sentiment |-> ""]

\* json.loads: one document, blanks around it allowed; anything else is an error
json_loads(text) ==
    LET t == Strip(text)
    IN  IF Len(t) = 1 /\ t[1] \in JsonAtoms
        THEN [exc |-> NoExc, value |-> JsonValue(t[1])]
        ELSE IF t = FenceInString
        THEN [exc |-> NoExc, value |-> FenceInStringValue]
        ELSE [exc |-> JSONDecodeError, value |-> NoValue]

\* the placeholder of a failed image
CouldNotAnalyze == "[Could not analyze]"

\* f"Image {idx}: {text}"
Description(i, text) == [idx |-> i, text |-> text]

\* mutant of limited_urls: the slice image_urls[:5] is forgotten
UnlimitedUrls(urls) == urls

limited_urls(urls) == Prefix(urls, MaxImages)

\* messages_text with the IMAGE CONTEXT block appended (none: <<>>)
WithImageContext(messages_text, images_description) ==
    [banner |-> messages_text.banner, lines |-> messages_text.lines,
     image_context |-> images_description]

build_summary_prompt(messages_text, desc, with_images) ==
    [messages_text |-> messages_text, time_desc |-> desc,
     image_instruction |-> with_images]

\* the text and the errors of ollama.chat, and of ollama.generate
ChatResponses ==
    {<<"{full}">>,
     <<"BQ", "BQ", "BQ", "json", "NL", "{full}", "NL", "BQ", "BQ", "BQ">>,
     <<"BQ", "BQ", "BQ", "NL", "{no_sentiment}", "NL", "BQ", "BQ", "BQ">>,
     <<" ", "{Mixed}", "NL">>,
     <<"{null_sentiment}">>,
     <<"[list]">>,
     <<"Sure!", " ", "{full}">>,
     <<"I", " ", "cannot">>,
     <<>>}

OllamaErrors ==
    {[type |-> "ConnectionError", desc |-> "Failed to connect to Ollama"],
     [type |-> "ResponseError", desc |-> "model not found"]}

\* generate_summary from the answer of ollama.chat on: the parsed summary,
\* or the exception that leaves the function
SummaryOf(content) ==
    json_loads(clean_json_response(Strip(content)))

---------------------------------------------------------------------------
(* utils/embed_builder.py and the messages the handlers send *)

\* a user-visible message: sent with interaction.followup.send ("followup")
\* or written over the status message with status_msg.edit ("edit")
Msg(via, kind, text, detail) ==
    [via |-> via, kind |-> kind, text |-> text, detail |-> detail]

AttributeError(desc) == [type |-> "AttributeError", desc |-> desc]

\* summary_data.get(...) needs a dict; .lower() needs a str
create_ai_summary_embed(summary_data, messages_analyzed, unique_users, images_analyzed) ==
    IF summary_data.type # "dict"
    THEN [exc |-> AttributeError("'list' object has no attribute 'get'"),
          embed |-> [title |-> "none"]]
    ELSE IF "sentiment" \in summary_data.keys /\ summary_data.sentiment = "None"
    THEN [exc |-> AttributeError("'NoneType' object has no attribute 'lower'"),
          embed |-> [title |-> "none"]]
    ELSE [exc |-> NoExc,
          embed |->
            [title |-> "AI Summary",
             description |-> IF "overview" \in summary_data.keys
                             THEN summary_data.overview
                             ELSE "No overview available",
             sentiment |-> StrCapitalize(StrLower(
                             IF "sentiment" \in summary_data.keys
                             THEN summary_data.sentiment ELSE "neutral")),
             messages |-> messages_analyzed,
             users |-> unique_users,
             images_analyzed |-> images_analyzed]]

create_fallback_summary_embed(summary_text, messages_analyzed, unique_users) ==
    [title |-> "AI Summary",
     description |-> Prefix(summary_text, FallbackLimit),
     messages |-> messages_analyzed,
     users |-> unique_users,
     footer |-> "fallback format"]

create_leaderboard_embed(stats) ==
    [title |-> "Message Counts", total_messages |-> stats.total_messages,
     unique_users |-> stats.unique_users]

create_global_leaderboard_embed(stats) ==
    [title |-> "Today's Messages Across", total_messages |-> stats.total_messages,
     unique_users |-> stats.unique_users,
     channels_checked |-> stats.channels_checked]

create_user_count_embed(user, count, percentage) ==
    [title |-> "Message Count for", user |-> user, count |-> count,
     percentage |-> percentage]

create_first_message_embed(message, total_messages) ==
    [description |-> IF message.content # "" THEN message.content
                     ELSE "*No text content*",
     author |-> message.user_name, total_messages |-> total_messages,
     timestamp |-> message.created_at]

---------------------------------------------------------------------------
(* The commands and the fixed texts of their messages *)

Commands == {"messagecount", "dailycount", "globaldailycount", "summarize",
             "firstmessage"}

\* commands that read one channel with fetch_messages_from_channel
ChannelCommands == Commands \ {"globaldailycount"}

\* the user argument of messagecount: 0 is None, 1 and 3 are members
Users == {0, 1, 3}

\* the timeframe argument of summarize, as its words and blanks
Timeframes ==
    {<<"1", " ", "day">>,
     <<"2", " ", "Hours">>,
     <<" ", "8", " ", " ", "DAYS", " ">>,
     <<"0", " ", "days">>,
     <<"169", " ", "hour">>,
     <<"2", " ", "weeks">>,
     <<"x", " ", "days">>,
     <<"1">>,
     <<"1", " ", "day", " ", "ago">>}

NoArg == [user |-> 0, timeframe |-> <<>>]

\* datetime.now(timezone.utc), in hours
ClockNow == 1000

NoMessagesText(command) ==
    CASE command = "messagecount" -> "No messages found in this channel!"
      [] command = "firstmessage" -> "No messages found in this channel!"
      [] command = "dailycount" -> "No messages found today in this channel!"
      [] command = "globaldailycount" -> "No messages found today in this server!"
      [] command = "summarize" ->
           "No messages found in the {time_desc} in this channel to summarize!"

NoUserMessagesText(command) ==
    CASE command = "messagecount" -> "No user messages found in this channel!"
      [] command = "dailycount" -> "No user messages found today in this channel!"
      [] command = "globaldailycount" -> "No user messages found today in this server!"
      [] command = "summarize" ->
           "No text messages found in the {time_desc} in this channel to summarize!"

GenericErrorText(command) ==
    CASE command = "summarize" -> "An error occurred while generating the summary: {e}"
      [] command = "firstmessage" -> "An error occurred while fetching messages."
      [] OTHER -> "An error occurred while counting messages: {e}"

\* the except clauses that close each handler; globaldailycount has no
\* clause for discord.Forbidden, firstmessage does not format the error
HandlerCatch(command, exc) ==
    IF exc.type = "Forbidden" /\ command # "globaldailycount"
    THEN Msg("followup", "forbidden",
             "I don't have permission to read message history!", "")
    ELSE Msg("followup", "generic_error", GenericErrorText(command),
             IF command = "firstmessage" THEN "" ELSE exc.desc)

\* mutant of NoMessages: the handler misses its check for an empty history
NeverNoMessages(messages) == FALSE

\* if not messages:
NoMessages(messages) == messages = <<>>

ExtractCalls == {"extract_message_data", "create_dataframe",
                 "filter_user_messages_df"}
FrameCalls == {"create_dataframe", "filter_user_messages_df"}
LeaderboardCalls == {"count_messages_by_user", "format_leaderboard",
                     "get_message_stats"}
UserCountCalls == {"get_user_message_count", "get_user_percentage"}

\* messagecount and dailycount from the return of the fetch on: the messages
\* to send and the functions executed
CountingAfterFetch(command, a, ret) ==
    IF ret.status = "raised"
    THEN [sent |-> <<HandlerCatch(command, ret.exc)>>, called |-> {}]
    ELSE IF NoMessages(ret.value)
    THEN [sent |-> <<Msg("followup", "no_messages", NoMessagesText(command), "")>>,
          called |-> {}]
    ELSE LET data == extract_message_data(ret.value)
             dfu  == filter_user_messages_df(create_dataframe(data))
         IN  IF dfu.exc # NoExc
             THEN [sent |-> <<HandlerCatch(command, dfu.exc)>>,
                   called |-> ExtractCalls]
             ELSE IF Len(dfu.rows) = 0
             THEN [sent |-> <<Msg("followup", "no_user_messages",
                                  NoUserMessagesText(command), "")>>,
                   called |-> ExtractCalls]
             ELSE IF command = "messagecount" /\ a.user # 0
             THEN [sent |-> <<Msg("followup", "user_count", "",
                                  create_user_count_embed(a.user,
                                      get_user_message_count(dfu, a.user),
                                      get_user_percentage(dfu, a.user)))>>,
                   called |-> ExtractCalls \cup UserCountCalls]
             ELSE [sent |-> <<Msg("followup", "leaderboard", "",
                                  create_leaderboard_embed(get_message_stats(dfu)))>>,
                   called |-> ExtractCalls \cup LeaderboardCalls]

\* globaldailycount from the return of fetch_messages_from_guild on
GlobalAfterFetch(data) ==
    IF NoMessages(data)
    THEN [sent |-> <<Msg("followup", "no_messages",
                         NoMessagesText("globaldailycount"), "")>>,
          called |-> {}]
    ELSE LET dfu == filter_user_messages_df(create_dataframe(data))
         IN  IF dfu.exc # NoExc
             THEN [sent |-> <<HandlerCatch("globaldailycount", dfu.exc)>>,
                   called |-> FrameCalls]
             ELSE IF Len(dfu.rows) = 0
             THEN [sent |-> <<Msg("followup", "no_user_messages",
                                  NoUserMessagesText("globaldailycount"), "")>>,
                   called |-> FrameCalls]
             ELSE [sent |-> <<Msg("followup", "global_leaderboard", "",
                                  create_global_leaderboard_embed(
                                      get_channel_stats(dfu)))>>,
                   called |-> FrameCalls \cup LeaderboardCalls]

\* firstmessage from the return of the fetch on
FirstMessageAfterFetch(ret) ==
    IF ret.status = "raised"
    THEN [sent |-> <<HandlerCatch("firstmessage", ret.exc)>>, called |-> {}]
    ELSE IF NoMessages(ret.value)
    THEN [sent |-> <<Msg("followup", "no_messages",
                         NoMessagesText("firstmessage"), "")>>,
          called |-> {}]
    ELSE [sent |-> <<Msg("followup", "first_message", "Jump to message",
                         create_first_message_embed(ret.value[1],
                                                    Len(ret.value)))>>,
          called |-> {}]

---------------------------------------------------------------------------
(* summarize (commands/ai.py) *)

\* summary_text = "Failed to parse AI response"
FallbackText == <<"Failed to parse AI response">>

SummarizeCalls == ExtractCalls \cup {"format_messages_for_ai"}

\* the words of the timeframe: valid, or the message that ends the request
ParseTimeframe(timeframe) ==
    LET parts == Split(Strip(timeframe))
    IN  IF Len(parts) # 2
        THEN [ok |-> FALSE,
              msg |-> Msg("followup", "invalid_format",
                          "Invalid format! Please use format like ...", "")]
        ELSE IF parts[1] \notin IntLiterals
        THEN [ok |-> FALSE,
              msg |-> Msg("followup", "invalid_number",
                          "Invalid number! Please use format like ...", "")]
        ELSE LET v == validate_timeframe(IntOf(parts[1]), parts[2])
             IN  IF ~v.is_valid
                 THEN [ok |-> FALSE,
                       msg |-> Msg("followup", "validation", v.error.text,
                                   v.error.bound)]
                 ELSE [ok |-> TRUE,
                       window |-> calculate_time_window(ClockNow,
                                      IntOf(parts[1]), parts[2])]

\* the prompt generate_summary sends to ollama.chat
PromptOf(rows, desc, images_description) ==
    build_summary_prompt(
        WithImageContext(format_messages_for_ai(rows, MAX_MESSAGES_FOR_AI),
                         images_description),
        desc, images_description # <<>>)

ChatCall(prompt) == [prompt |-> prompt, status |-> "pending", content |-> <<>>,
                     exc |-> NoExc]

\* summarize from the return of generate_summary on: the edit of the status
\* message.  `answer` is the chatLog entry of the completed ollama.chat call.
SummarizeAfterChat(answer, rows, urls) ==
    LET users == Cardinality({rows[i].user_id : i \in DOMAIN rows})
    IN  IF answer.status = "error"
        THEN Msg("edit", "ollama_error",
                 "Failed to generate summary. Make sure Ollama is running ...",
                 answer.exc.desc)
        ELSE LET parsed == SummaryOf(answer.content)
             IN  IF parsed.exc # NoExc
                 THEN Msg("edit", "fallback", "",
                          create_fallback_summary_embed(FallbackText, Len(rows),
                                                        users))
                 ELSE LET built == create_ai_summary_embed(parsed.value,
                                       Len(rows), users, Len(urls))
                      IN  IF built.exc # NoExc
                          THEN Msg("edit", "ollama_error",
                                   "Failed to generate summary. Make sure Ollama is running ...",
                                   built.exc.desc)
                          ELSE Msg("edit", "summary", "", built.embed)

\* mutant of NextImage: the loop of analyze_images stays on its image
SameImage(i) == i

\* enumerate(limited_urls, 1): the index after i
NextImage(i) == i + 1

---------------------------------------------------------------------------
(* One invocation: initial state and steps *)

NoTask == 0
Tasks == 1..NumTasks

\* the event loop at rest: no task was dispatched
LoopIdle ==
    /\ running = NoTask
    /\ tpc = [t \in Tasks |-> "new"]
    /\ timg = [t \in Tasks |-> 0]

\* no function is applied on its own
FnIdle ==
    /\ fn = "none"
    /\ fnIn = <<>>
    /\ fnOut = <<>>
    /\ fnDone = FALSE

\* no step of the handler was taken yet
RequestFresh ==
    /\ pc = "start"
    /\ sent = <<>>
    /\ called = {}
    /\ historyLog = <<>>
    /\ fetchRet = NoFetch
    /\ time_desc = NoTimeDesc
    /\ df_users = <<>>
    /\ image_urls = <<>>
    /\ idx = 0
    /\ descriptions = <<>>
    /\ downloads = <<>>
    /\ visions = <<>>
    /\ imgLog = <<>>
    /\ stageRaised = FALSE
    /\ has_images = FALSE
    /\ chatLog = <<>>
    /\ chIdx = 0
    /\ guildLog = <<>>
    /\ messages_data = <<>>

Init ==
    /\ cmd \in Commands
    /\ arg \in [user : Users, timeframe : Timeframes \cup {<<>>}]
    /\ arg.user # 0 => cmd = "messagecount"
    /\ arg.timeframe # <<>> <=> cmd = "summarize"
    /\ nChannels \in 0..MaxChannels
    /\ nChannels # 0 => cmd = "globaldailycount"
    /\ RequestFresh
    /\ LoopIdle
    /\ FnIdle

\* a channel.history() request
HistoryRequest(channel, after, oldest_first) ==
    [channel |-> channel, after |-> after, oldest_first |-> oldest_first,
     yielded |-> <<>>, ending |-> [type |-> "pending", desc |-> ""]]

\* the request with what the platform answered: the messages the iterator
\* yielded and how the iteration ended
Answered(request, yielded, ending) ==
    [channel |-> request.channel, after |-> request.after,
     oldest_first |-> request.oldest_first,
     yielded |-> yielded, ending |-> ending]

\* today_start = now.replace(hour=0, minute=0, second=0, microsecond=0)
TodayStart == ClockNow - (ClockNow % 24)

\* what the platform may answer to a history request
Endings == {NoExc, Forbidden} \cup TransportErrors

\* mutant of Finish: the handler returns without its last message
FinishSilently(msgs, calls) ==
    /\ sent' = sent
    /\ called' = called \cup calls
    /\ pc' = "done"

\* the handler ends: its last messages are sent
Finish(msgs, calls) ==
    /\ sent' = sent \o msgs
    /\ called' = called \cup calls
    /\ pc' = "done"

\* messagecount, dailycount, firstmessage: defer, then the fetch is awaited
StartChannelFetch ==
    /\ pc = "start"
    /\ cmd \in {"messagecount", "dailycount", "firstmessage"}
    /\ historyLog' = Append(historyLog,
          HistoryRequest(0, IF cmd = "dailycount" THEN TodayStart ELSE -1,
                         cmd = "firstmessage"))
    /\ pc' = "fetching"
    /\ UNCHANGED <<cmd, arg, sent, called, fetchRet, sumVars, gldVars, loopVars, fnVars>>

\* summarize: defer, parse and validate the timeframe, then the fetch is awaited
StartSummarize ==
    /\ pc = "start"
    /\ cmd = "summarize"
    /\ LET p == ParseTimeframe(arg.timeframe)
       IN  IF ~p.ok
           THEN /\ Finish(<<p.msg>>, {})
                /\ UNCHANGED <<historyLog, time_desc>>
           ELSE /\ time_desc' = p.window.time_desc
                /\ historyLog' = Append(historyLog,
                      HistoryRequest(0, p.window.time_start, FALSE))
                /\ pc' = "fetching"
                /\ UNCHANGED <<sent, called>>
    /\ UNCHANGED <<cmd, arg, fetchRet, df_users, image_urls, idx, descriptions,
                   downloads, visions, imgLog, stageRaised, has_images, chatLog,
                   gldVars, loopVars, fnVars>>

\* messagecount, dailycount: the fetch returns or raises, the handler ends
CountingFetched ==
    /\ pc = "fetching"
    /\ cmd \in {"messagecount", "dailycount"}
    /\ \E kinds \in SeqsUpTo(MsgKinds, MaxMsgs), ending \in Endings :
          LET yielded == History(ChannelOf(kinds), FALSE)
              ret == fetch_messages_from_channel(yielded, ending)
              out == CountingAfterFetch(cmd, arg, ret)
          IN  /\ historyLog' = [historyLog EXCEPT ![Len(historyLog)] =
                                    Answered(@, yielded, ending)]
              /\ fetchRet' = ret
              /\ Finish(out.sent, out.called)
    /\ UNCHANGED <<cmd, arg, sumVars, gldVars, loopVars, fnVars>>

\* firstmessage: the fetch returns or raises, the handler ends
FirstMessageFetched ==
    /\ pc = "fetching"
    /\ cmd = "firstmessage"
    /\ \E kinds \in SeqsUpTo(MsgKinds, MaxMsgs), ending \in Endings :
          LET yielded == History(ChannelOf(kinds), TRUE)
              ret == fetch_messages_from_channel(yielded, ending)
              out == FirstMessageAfterFetch(ret)
          IN  /\ historyLog' = [historyLog EXCEPT ![Len(historyLog)] =
                                    Answered(@, yielded, ending)]
              /\ fetchRet' = ret
              /\ Finish(out.sent, out.called)
    /\ UNCHANGED <<cmd, arg, sumVars, gldVars, loopVars, fnVars>>

\* globaldailycount: defer, then fetch_messages_from_guild starts its loop
StartGuildSweep ==
    /\ pc = "start"
    /\ cmd = "globaldailycount"
    /\ chIdx' = 1
    /\ pc' = "sweeping"
    /\ UNCHANGED <<cmd, arg, sent, called, historyLog, fetchRet, sumVars,
                   nChannels, guildLog, messages_data, loopVars, fnVars>>

\* one pass of the loop over guild.text_channels: the permission check, and
\* for a readable channel the history request; whatever the iteration
\* raises, the loop continues with the next channel
SweepChannel ==
    /\ pc = "sweeping"
    /\ chIdx <= nChannels
    /\ \E perm \in BOOLEAN, kinds \in SeqsUpTo(GuildMsgKinds, MaxChanMsgs),
          ending \in Endings :
          IF ~perm
          THEN /\ kinds = <<>>
               /\ ending = NoExc
               /\ guildLog' = Append(guildLog,
                     [channel |-> chIdx, read_message_history |-> FALSE,
                      yielded |-> <<>>, ending |-> NoExc])
               /\ UNCHANGED <<historyLog, messages_data>>
          ELSE LET yielded == History(ChannelOf(kinds), FALSE)
               IN  /\ historyLog' = Append(historyLog,
                           HistoryRequest(chIdx, TodayStart, FALSE))
                   /\ messages_data' =
                           messages_data \o GuildRecordsOf(yielded, chIdx)
                   /\ guildLog' = Append(guildLog,
                           [channel |-> chIdx, read_message_history |-> TRUE,
                            yielded |-> yielded, ending |-> ending])
    /\ chIdx' = chIdx + 1
    /\ UNCHANGED <<cmd, arg, pc, sent, called, fetchRet, sumVars, nChannels,
                   loopVars, fnVars>>

\* the loop is over: fetch_messages_from_guild returns, the handler ends
SweepDone ==
    /\ pc = "sweeping"
    /\ chIdx > nChannels
    /\ fetchRet' = [status |-> "list", value |-> messages_data, exc |-> NoExc]
    /\ LET out == GlobalAfterFetch(messages_data)
       IN  Finish(out.sent, out.called)
    /\ UNCHANGED <<cmd, arg, historyLog, sumVars, gldVars, loopVars, fnVars>>

\* generate_summary reaches ollama.chat with the descriptions it has
CallChat(images_description) ==
    /\ has_images' = (images_description # <<>>)
    /\ chatLog' = Append(chatLog,
          ChatCall(PromptOf(df_users', time_desc, images_description)))
    /\ pc' = "chat"

\* summarize: the fetch returns or raises; the handler ends, or sends the
\* status message and enters generate_summary
SummarizeFetched ==
    /\ pc = "fetching"
    /\ cmd = "summarize"
    /\ \E kinds \in SeqsUpTo(MsgKinds, MaxMsgs), ending \in Endings :
          LET yielded == History(ChannelOf(kinds), FALSE)
              ret == fetch_messages_from_channel(yielded, ending)
              dfu == filter_user_messages_df(
                         create_dataframe(extract_message_data(ret.value)))
              rows == SortByTimestamp(dfu.rows)
              urls == CollectImageUrls(rows)
              stop(msg, calls) ==
                  /\ Finish(<<msg>>, calls)
                  /\ UNCHANGED <<df_users, image_urls, has_images, chatLog>>
          IN  /\ historyLog' = [historyLog EXCEPT ![Len(historyLog)] =
                                    Answered(@, yielded, ending)]
              /\ fetchRet' = ret
              /\ IF ret.status = "raised"
                 THEN stop(HandlerCatch(cmd, ret.exc), {})
                 ELSE IF NoMessages(ret.value)
                 THEN stop(Msg("followup", "no_messages", NoMessagesText(cmd),
                               time_desc), {})
                 ELSE IF dfu.exc # NoExc
                 THEN stop(HandlerCatch(cmd, dfu.exc), ExtractCalls)
                 ELSE IF Len(dfu.rows) = 0
                 THEN stop(Msg("followup", "no_user_messages",
                               NoUserMessagesText(cmd), time_desc), ExtractCalls)
                 ELSE IF IsBlankText(format_messages_for_ai(rows,
                                                            MAX_MESSAGES_FOR_AI))
                 THEN stop(Msg("followup", "no_text_messages",
                               NoUserMessagesText(cmd), time_desc),
                           SummarizeCalls)
                 ELSE /\ df_users' = rows
                      /\ image_urls' = urls
                      /\ sent' = Append(sent,
                            Msg("followup", "status",
                                "Generating AI summary... This may take a moment.",
                                Len(urls)))
                      /\ called' = called \cup SummarizeCalls
                                          \cup {"generate_summary"}
                      /\ IF urls # <<>>
                         THEN /\ pc' = "images"
                              /\ UNCHANGED <<has_images, chatLog>>
                         ELSE CallChat(<<>>)
    /\ UNCHANGED <<cmd, arg, time_desc, idx, descriptions,
                   downloads, visions, imgLog, stageRaised, gldVars, loopVars, fnVars>>

\* the answers of the image host and of the vision model
DownloadAnswers == {"ok", "status_404", "connection_error"}
VisionAnswers == {<<" ", "a cat", "NL">>, <<"error">>}

\* analyze_images starts: the first of the limited URLs is downloaded
AnalyzeImagesBegin ==
    /\ pc = "images"
    /\ idx' = 1
    /\ downloads' = Append(downloads, limited_urls(image_urls)[1])
    /\ called' = called \cup {"analyze_images"}
    /\ pc' = "download"
    /\ UNCHANGED <<cmd, arg, sent, historyLog, fetchRet, time_desc, df_users,
                   image_urls, descriptions, visions, imgLog, stageRaised,
                   has_images, chatLog, gldVars, loopVars, fnVars>>

\* analyze_images raises before its loop, outside the per-image handler
\* (an Exception such as MemoryError): generate_summary logs it and goes on
\* with the text alone
AnalyzeImagesRaise ==
    /\ pc = "images"
    /\ stageRaised' = TRUE
    /\ called' = called \cup {"analyze_images"}
    /\ UNCHANGED df_users
    /\ CallChat(<<>>)
    /\ UNCHANGED <<cmd, arg, sent, historyLog, fetchRet, time_desc, image_urls,
                   idx, descriptions, downloads, visions, imgLog, gldVars,
                   loopVars, fnVars>>

\* the loop of analyze_images after image idx got its description: the next
\* image is downloaded, or the joined descriptions go back to generate_summary
AfterImage(descs) ==
    /\ descriptions' = descs
    /\ UNCHANGED df_users
    /\ IF idx < Len(limited_urls(image_urls))
       THEN /\ idx' = NextImage(idx)
            /\ downloads' = Append(downloads,
                                   limited_urls(image_urls)[NextImage(idx)])
            /\ pc' = "download"
            /\ UNCHANGED <<has_images, chatLog>>
       ELSE /\ CallChat(descs)
            /\ UNCHANGED <<idx, downloads>>

\* download_image returns the bytes, which go to ollama.generate, or raises
DownloadReturn ==
    /\ pc = "download"
    /\ \E answer \in DownloadAnswers :
          IF answer = "ok"
          THEN /\ visions' = Append(visions, limited_urls(image_urls)[idx])
               /\ pc' = "vision"
               /\ UNCHANGED <<idx, descriptions, downloads, imgLog, has_images,
                              chatLog, df_users>>
          ELSE /\ imgLog' = Append(imgLog, "download_failed")
               /\ AfterImage(Append(descriptions,
                                    Description(idx, <<CouldNotAnalyze>>)))
               /\ UNCHANGED visions
    /\ UNCHANGED <<cmd, arg, sent, called, historyLog, fetchRet, time_desc,
                   image_urls, stageRaised, gldVars, loopVars, fnVars>>

\* ollama.generate returns its description or raises
VisionReturn ==
    /\ pc = "vision"
    /\ \E answer \in VisionAnswers :
          IF answer # <<"error">>
          THEN /\ imgLog' = Append(imgLog, "ok")
               /\ AfterImage(Append(descriptions,
                                    Description(idx, Strip(answer))))
          ELSE /\ imgLog' = Append(imgLog, "vision_failed")
               /\ AfterImage(Append(descriptions,
                                    Description(idx, <<CouldNotAnalyze>>)))
    /\ UNCHANGED <<cmd, arg, sent, called, historyLog, fetchRet, time_desc,
                   image_urls, visions, stageRaised, gldVars, loopVars, fnVars>>

\* ollama.chat returns its text or raises; generate_summary parses or raises;
\* the handler writes the result over the status message
ChatReturn ==
    /\ pc = "chat"
    /\ \E content \in ChatResponses, exc \in OllamaErrors \cup {NoExc} :
          /\ exc # NoExc => content = <<>>
          /\ LET answer == [prompt |-> chatLog[Len(chatLog)].prompt,
                            status |-> IF exc = NoExc THEN "text" ELSE "error",
                            content |-> content, exc |-> exc]
             IN  /\ chatLog' = [chatLog EXCEPT ![Len(chatLog)] = answer]
                 /\ Finish(<<SummarizeAfterChat(answer, df_users, image_urls)>>,
                           {})
    /\ UNCHANGED <<cmd, arg, historyLog, fetchRet, time_desc, df_users,
                   image_urls, idx, descriptions, downloads, visions, imgLog,
                   stageRaised, has_images, gldVars, loopVars, fnVars>>

Next ==
    \/ StartChannelFetch
    \/ StartSummarize
    \/ StartGuildSweep
    \/ CountingFetched
    \/ FirstMessageFetched
    \/ SummarizeFetched
    \/ SweepChannel
    \/ SweepDone
    \/ AnalyzeImagesBegin
    \/ AnalyzeImagesRaise
    \/ DownloadReturn
    \/ VisionReturn
    \/ ChatReturn

Spec == Init /\ [][Next]_vars

\* every collaborator answers in the end and the handler is resumed
FairSpec == Spec /\ WF_vars(Next)

---------------------------------------------------------------------------
(* The event loop.  discord.py runs every handler as a task of one asyncio *)
(* loop, on one thread.  A task that awaits gives the thread back; a task   *)
(* inside a plain (synchronous) call keeps it until the call returns.      *)
(* running is the task that keeps the thread between two steps.            *)

LoopInit ==
    /\ cmd = "summarize"
    /\ arg = [user |-> 0, timeframe |-> <<"1", " ", "day">>]
    /\ nChannels = 0
    /\ RequestFresh
    /\ LoopIdle
    /\ FnIdle

\* the loop starts the handler of task t, which runs up to the await of the
\* history fetch
Dispatch(t) ==
    /\ running = NoTask
    /\ tpc[t] = "new"
    /\ tpc' = [tpc EXCEPT ![t] = "await_history"]
    /\ UNCHANGED <<running, timg>>

\* analyze_images of task t goes to its next image, or generate_summary
\* enters ollama.chat, a plain call
LoopAfterImage(t) ==
    IF timg[t] > 1
    THEN /\ timg' = [timg EXCEPT ![t] = @ - 1]
         /\ tpc' = [tpc EXCEPT ![t] = "await_download"]
         /\ running' = NoTask
    ELSE /\ timg' = [timg EXCEPT ![t] = 0]
         /\ tpc' = [tpc EXCEPT ![t] = "in_chat"]
         /\ running' = t

\* the history arrived and the loop resumes task t: the handler ends, or
\* awaits the first image download, or enters ollama.chat
HistoryAnswered(t) ==
    /\ running = NoTask
    /\ tpc[t] = "await_history"
    /\ \E ends \in BOOLEAN, n \in 0..MaxLoopImages :
          IF ends
          THEN /\ n = 0
               /\ tpc' = [tpc EXCEPT ![t] = "done"]
               /\ UNCHANGED <<running, timg>>
          ELSE IF n > 0
          THEN /\ timg' = [timg EXCEPT ![t] = n]
               /\ tpc' = [tpc EXCEPT ![t] = "await_download"]
               /\ UNCHANGED running
          ELSE /\ tpc' = [tpc EXCEPT ![t] = "in_chat"]
               /\ running' = t
               /\ UNCHANGED timg

\* the download ended and the loop resumes task t: with the bytes it enters
\* ollama.generate, a plain call; after a failure it goes to the next image
DownloadAnswered(t) ==
    /\ running = NoTask
    /\ tpc[t] = "await_download"
    /\ \E ok \in BOOLEAN :
          IF ok
          THEN /\ tpc' = [tpc EXCEPT ![t] = "in_vision"]
               /\ running' = t
               /\ UNCHANGED timg
          ELSE LoopAfterImage(t)

\* ollama.generate returns (or raises) in task t, which kept the thread
VisionReturned(t) ==
    /\ running = t
    /\ tpc[t] = "in_vision"
    /\ LoopAfterImage(t)

\* ollama.chat returns (or raises) in task t, which kept the thread; the
\* handler awaits status_msg.edit and ends
ChatReturned(t) ==
    /\ running = t
    /\ tpc[t] = "in_chat"
    /\ tpc' = [tpc EXCEPT ![t] = "done"]
    /\ running' = NoTask
    /\ UNCHANGED timg

\* the next step of task t
TaskStep(t) ==
    /\ \/ Dispatch(t)
       \/ HistoryAnswered(t)
       \/ DownloadAnswered(t)
       \/ VisionReturned(t)
       \/ ChatReturned(t)
    /\ UNCHANGED <<reqVars, sumVars, gldVars, fnVars>>

LoopNext ==
    \/ \E t \in Tasks : Dispatch(t) /\ UNCHANGED <<reqVars, sumVars, gldVars, fnVars>>
    \/ \E t \in Tasks : HistoryAnswered(t) /\ UNCHANGED <<reqVars, sumVars, gldVars, fnVars>>
    \/ \E t \in Tasks : DownloadAnswered(t) /\ UNCHANGED <<reqVars, sumVars, gldVars, fnVars>>
    \/ \E t \in Tasks : VisionReturned(t) /\ UNCHANGED <<reqVars, sumVars, gldVars, fnVars>>
    \/ \E t \in Tasks : ChatReturned(t) /\ UNCHANGED <<reqVars, sumVars, gldVars, fnVars>>

LoopSpec == LoopInit /\ [][LoopNext]_vars

---------------------------------------------------------------------------
(* One call of a function, on arguments drawn from bounded sets *)

\* the handlers are idle while a function is applied on its own
HandlersIdle ==
    /\ cmd = "none"
    /\ arg = NoArg
    /\ nChannels = 0
    /\ RequestFresh
    /\ LoopIdle

\* the magnitudes and the unit tokens given to the validators
Magnitudes == (0 - 2)..MaxMagnitude
UnitTokens == {"hours", "Hours", "HOURS", "hour", "Hour", "HOUR", "hour ",
               "days", "DAYS", "day", "Day", " days ",
               "", "weeks", "Weeks", "d", "minutes"}
TimeArgs == [timeframe : Magnitudes, unit : UnitTokens]

ValidatorFns == {"normalize_time_unit", "validate_timeframe",
                 "calculate_time_window"}

\* the records given to the analytics functions: two display names of one
\* author, two more authors, a bot; record i has timestamp i
RecordKinds ==
    {[user_id |-> 1, user_name |-> "alice",  is_bot |-> FALSE],
     [user_id |-> 1, user_name |-> "alicia", is_bot |-> FALSE],
     [user_id |-> 2, user_name |-> "bob",    is_bot |-> FALSE],
     [user_id |-> 3, user_name |-> "carol",  is_bot |-> FALSE],
     [user_id |-> 9, user_name |-> "helper", is_bot |-> TRUE]}

RecordOf(kind, i) ==
    [user_id |-> kind.user_id, user_name |-> kind.user_name,
     is_bot |-> kind.is_bot, content |-> "hi", timestamp |-> i]

RecordLists ==
    {[i \in DOMAIN kinds |-> RecordOf(kinds[i], i)] :
        kinds \in SeqsUpTo(RecordKinds, MaxRecords)}

FrameFns == {"filter_user_messages_df", "count_messages_by_user",
             "get_message_stats", "aggregate"}

\* the author ids asked for: two authors, the bot, a stranger
AskedIds == {1, 2, 9, 7}

\* the frames of counts that count_messages_by_user may hand on
CountLists ==
    UNION {{o.rows : o \in count_messages_by_user(create_dataframe(records))} :
              records \in RecordLists}

\* the records given to format_messages_for_ai: with and without content
TextKinds ==
    {[user_name |-> "alice", content |-> "hi"],
     [user_name |-> "bob",   content |-> ""],
     [user_name |-> "carol", content |-> "yo"],
     [user_name |-> "alice", content |-> "look"]}

TextLists == SeqsUpTo(TextKinds, MaxRecords)

\* max_messages: 0 stands for None, which the test of max_messages treats
\* like 0
MaxMessagesArgs == 0..MaxEntries

\* the texts given to clean_json_response: a JSON text or a prose text, as
\* it is, or inside a fence of either variant, with or without line breaks
\* and blanks
JsonTexts == {<<a>> : a \in JsonAtoms} \cup {FenceInString}
ProseTexts == {<<"I", " ", "cannot">>, <<>>}
Wraps == {"none", "json", "plain"}

Wrapped(doc, wrap, breaks) ==
    LET inner == IF breaks THEN <<"NL">> \o doc \o <<"NL">> ELSE doc
    IN  CASE wrap = "json"  -> JsonFence \o inner \o Fence
          [] wrap = "plain" -> Fence \o inner \o Fence
          [] OTHER -> IF breaks THEN <<" ">> \o doc \o <<"NL">> ELSE doc

CleanArgs == [doc : JsonTexts \cup ProseTexts, wrap : Wraps, breaks : BOOLEAN]

MaxEntriesArgs == {NoMax} \cup {MaxOf(n) : n \in (0 - 1)..MaxEntries}

PureInit ==
    /\ HandlersIdle
    /\ fnOut = <<>>
    /\ fnDone = FALSE
    /\ \/ fn \in ValidatorFns /\ fnIn \in TimeArgs
       \/ fn \in FrameFns /\ fnIn \in [records : RecordLists]
       \/ fn = "get_user_percentage"
            /\ fnIn \in [records : RecordLists, user_id : AskedIds]
       \/ fn = "format_leaderboard"
            /\ fnIn \in [user_counts : CountLists, max_entries : MaxEntriesArgs]
       \/ fn = "clean_json_response" /\ fnIn \in CleanArgs
       \/ fn = "format_messages_for_ai"
            /\ fnIn \in [messages : TextLists, max_messages : MaxMessagesArgs]

Return(value) ==
    /\ ~fnDone
    /\ fnOut' = value
    /\ fnDone' = TRUE
    /\ UNCHANGED <<fn, fnIn, reqVars, sumVars, gldVars, loopVars>>

ApplyNormalize ==
    /\ fn = "normalize_time_unit"
    /\ Return(normalize_time_unit(fnIn.unit))

ApplyValidate ==
    /\ fn = "validate_timeframe"
    /\ Return(validate_timeframe(fnIn.timeframe, fnIn.unit))

ApplyTimeWindow ==
    /\ fn = "calculate_time_window"
    /\ Return(calculate_time_window(ClockNow, fnIn.timeframe, fnIn.unit))

ApplyFilter ==
    /\ fn = "filter_user_messages_df"
    /\ Return(filter_user_messages_df(create_dataframe(fnIn.records)))

ApplyCount ==
    /\ fn = "count_messages_by_user"
    /\ \E out \in count_messages_by_user(create_dataframe(fnIn.records)) :
          Return(out)

ApplyStats ==
    /\ fn = "get_message_stats"
    /\ Return(get_message_stats_call(create_dataframe(fnIn.records)))

ApplyPercentage ==
    /\ fn = "get_user_percentage"
    /\ Return(get_user_percentage(create_dataframe(fnIn.records), fnIn.user_id))

ApplyLeaderboard ==
    /\ fn = "format_leaderboard"
    /\ Return(format_leaderboard(fnIn.user_counts, fnIn.max_entries))

\* the steps of messagecount between the fetch and the embed: the frame, the
\* filter, the counts, the leaderboard and the stats
ApplyAggregate ==
    /\ fn = "aggregate"
    /\ LET df_u == filter_user_messages_df(create_dataframe(fnIn.records))
       IN  \E user_counts \in count_messages_by_user(df_u) :
              Return([df_users    |-> df_u,
                      user_counts |-> user_counts,
                      leaderboard |-> format_leaderboard(user_counts.rows, NoMax),
                      stats       |-> get_message_stats_call(df_u)])

ApplyFormatMessages ==
    /\ fn = "format_messages_for_ai"
    /\ Return(format_messages_for_ai(fnIn.messages, fnIn.max_messages))

\* generate_summary strips the text before it cleans it
ApplyClean ==
    /\ fn = "clean_json_response"
    /\ Return(clean_json_response(
                  Strip(Wrapped(fnIn.doc, fnIn.wrap, fnIn.breaks))))

PureNext ==
    \/ ApplyNormalize
    \/ ApplyValidate
    \/ ApplyTimeWindow
    \/ ApplyFilter
    \/ ApplyCount
    \/ ApplyStats
    \/ ApplyPercentage
    \/ ApplyLeaderboard
    \/ ApplyAggregate
    \/ ApplyFormatMessages
    \/ ApplyClean

PureSpec == PureInit /\ [][PureNext]_vars

---------------------------------------------------------------------------
(* Properties *)

Done == pc = "done"

Last(seq) == seq[Len(seq)]

\* the messages other than the transient status note
FinalMessages == SelectSeq(sent, LAMBDA m : m.kind # "status")

\* the summarization reached the completion call and the call was answered
ChatAnswered == chatLog # <<>> /\ chatLog[1].status # "pending"

\* the answer of the completion service is a JSON document once the blanks
\* and the code fence around it are removed
ParsesAsJson(content) == SummaryOf(content).exc = NoExc

\* C1: a summarization that reached the completion call ends in exactly one
\* of the three outcomes summary / fallback / fatal error: fatal when the call
\* failed, fallback when the response is not valid JSON, and never fatal
\* when the response parses.
C1_ThreeOutcomes ==
    (Done /\ ChatAnswered) =>
        /\ Len(FinalMessages) = 1
        /\ Last(sent).kind \in {"summary", "fallback", "ollama_error"}
        /\ chatLog[1].status = "error" => Last(sent).kind = "ollama_error"
        /\ (chatLog[1].status = "text" /\ ~ParsesAsJson(chatLog[1].content))
              => Last(sent).kind = "fallback"
        /\ (chatLog[1].status = "text" /\ ParsesAsJson(chatLog[1].content))
              => Last(sent).kind # "ollama_error"

\* C2: when the response of the completion service does not parse as JSON,
\* the fallback result carries the raw response text, cut to the length
\* limit, and the completion call is made only once.
C2_FallbackCarriesRawText ==
    (Done /\ ChatAnswered /\ chatLog[1].status = "text"
          /\ ~ParsesAsJson(chatLog[1].content)) =>
        /\ Len(chatLog) = 1
        /\ Last(sent).kind = "fallback"
        /\ Last(sent).detail.description \in
              {Prefix(chatLog[1].content, FallbackLimit),
               Prefix(Strip(chatLog[1].content), FallbackLimit),
               Prefix(clean_json_response(Strip(chatLog[1].content)),
                      FallbackLimit)}

\* a task inside a long-running operation: the history fetch, an image
\* download, a vision call, the completion call
InLongOperation(t) ==
    tpc[t] \in {"await_history", "await_download", "in_vision", "in_chat"}

\* C3: while a request is inside a long-running operation, every other
\* request in flight can take its next step.
C3_OthersProgress ==
    \A t \in Tasks, u \in Tasks :
        (t # u /\ InLongOperation(t) /\ tpc[u] # "done") => ENABLED TaskStep(u)

\* the number of images the enrichment may process: min(5, n)
ImageQuota == Min(MaxImages, Len(image_urls))

IsPlaceholder(d) == d.text = <<CouldNotAnalyze>>

\* C4: image enrichment handles only the first min(5, n) URLs, one at a
\* time and in URL order; it yields one description per handled URL, in
\* order, the placeholder exactly for the images whose download or vision
\* call failed; with all of them handled there are exactly min(5, n)
\* descriptions, which are the image context of the prompt; and neither an
\* image failure nor a failure of the whole stage ends the request before
\* the completion call.
C4_ImageEnrichment ==
    /\ Len(downloads) <= ImageQuota
    /\ downloads = SubSeq(image_urls, 1, Len(downloads))
    /\ Len(descriptions) = Len(imgLog)
    /\ Len(downloads) - Len(descriptions) \in {0, 1}
    /\ \A i \in DOMAIN visions : \E j \in DOMAIN downloads :
          /\ visions[i] = downloads[j]
          /\ j <= Len(descriptions) + 1
    /\ \A i \in DOMAIN descriptions :
          /\ descriptions[i].idx = i
          /\ IsPlaceholder(descriptions[i]) <=> imgLog[i] # "ok"
    /\ (chatLog # <<>> /\ ~stageRaised) =>
          /\ Len(descriptions) = ImageQuota
          /\ chatLog[1].prompt.messages_text.image_context = descriptions
    /\ (chatLog # <<>> /\ stageRaised) =>
          chatLog[1].prompt.messages_text.image_context = <<>>
    /\ (Done /\ image_urls # <<>>) => Len(chatLog) = 1

\* six URLs, of which the first five were handled, with a failed download,
\* a failed vision call and a described image among them
C4_Witness ==
    /\ Done
    /\ Len(image_urls) = 6
    /\ Len(descriptions) = 5
    /\ \E i, j, k \in 1..5 :
          /\ imgLog[i] = "download_failed"
          /\ imgLog[j] = "vision_failed"
          /\ imgLog[k] = "ok"
    /\ Len(chatLog) = 1


\* the history request of a single-channel command ended with exception e
ChannelHistoryRaised(e) ==
    /\ cmd \in ChannelCommands
    /\ historyLog # <<>>
    /\ historyLog[1].ending = e

\* the records the guild-wide fetch returned for channel i, and the
\* messages of the default type the platform yielded for it
RecordsOfChannel(i) == SelectSeq(fetchRet.value, LAMBDA r : r.channel_name = i)
DefaultYielded(i) == SelectSeq(guildLog[i].yielded, LAMBDA m : m.type = "default")

\* every message of the default type that channel i yielded has its record,
\* in order, and channel i has no other record
ChannelFullyReturned(i) ==
    /\ Len(RecordsOfChannel(i)) = Len(DefaultYielded(i))
    /\ \A k \in DOMAIN DefaultYielded(i) :
          /\ RecordsOfChannel(i)[k].user_id = DefaultYielded(i)[k].user_id
          /\ RecordsOfChannel(i)[k].timestamp = DefaultYielded(i)[k].created_at
          /\ RecordsOfChannel(i)[k].content = DefaultYielded(i)[k].content
          /\ RecordsOfChannel(i)[k].is_bot = DefaultYielded(i)[k].is_bot

\* the sweep visited every channel of the guild, once and in order
SweepVisitedAll ==
    /\ Len(guildLog) = nChannels
    /\ \A i \in DOMAIN guildLog : guildLog[i].channel = i

\* C5: permission denied while reading the history is fatal for a
\* single-channel fetch (the fetch raises it, the command ends with the
\* permission message alone and aggregates nothing); in the guild-wide sweep
\* it skips that channel only: every channel is still visited and the
\* records of every channel that was read to its end are returned.
C5_PermissionDenied ==
    /\ (Done /\ ChannelHistoryRaised(Forbidden)) =>
          /\ fetchRet.status = "raised"
          /\ fetchRet.exc = Forbidden
          /\ Len(sent) = 1
          /\ sent[1].kind = "forbidden"
          /\ called = {}
    /\ (Done /\ cmd = "globaldailycount") =>
          /\ SweepVisitedAll
          /\ fetchRet.status = "list"
          /\ \A i \in DOMAIN guildLog :
                /\ ~guildLog[i].read_message_history => RecordsOfChannel(i) = <<>>
                /\ (guildLog[i].read_message_history /\ guildLog[i].ending = NoExc)
                      => ChannelFullyReturned(i)

\* a sweep whose first channel raised Forbidden and whose second channel was
\* read and is in the result
C5_Witness ==
    /\ Done
    /\ cmd = "globaldailycount"
    /\ nChannels = 2
    /\ guildLog[1].ending = Forbidden
    /\ guildLog[2].ending = NoExc
    /\ RecordsOfChannel(2) # <<>>

\* C6 as claimed: a transport error of a history request is fatal for the
\* fetch call, single-channel and guild-wide alike: no list is returned.
C6_TransportErrorFatal ==
    /\ \A e \in TransportErrors :
          ChannelHistoryRaised(e) => fetchRet.status # "list"
    /\ \A i \in DOMAIN guildLog :
          guildLog[i].ending \in TransportErrors => fetchRet.status # "list"

\* C6 as amended: a transport error is fatal for the single-channel fetch,
\* which raises it and returns no list; the guild-wide fetch goes on with
\* the next channel and returns its list, which keeps the records read from
\* the failing channel before the error.
C6_TransportErrorByPath ==
    /\ \A e \in TransportErrors :
          ChannelHistoryRaised(e) =>
              /\ fetchRet.status = "raised"
              /\ fetchRet.exc = e
              /\ fetchRet.value = <<>>
    /\ (Done /\ cmd = "globaldailycount") =>
          /\ SweepVisitedAll
          /\ fetchRet.status = "list"
          /\ \A i \in DOMAIN guildLog :
                guildLog[i].ending \in TransportErrors => ChannelFullyReturned(i)

\* a sweep whose first channel yielded a message and then failed, ended
\* with a list that holds the record
C6_Witness ==
    /\ Done
    /\ cmd = "globaldailycount"
    /\ nChannels = 2
    /\ guildLog[1].ending \in TransportErrors
    /\ RecordsOfChannel(1) # <<>>
    /\ fetchRet.status = "list"

CountingAndSummarize == {"messagecount", "dailycount", "globaldailycount",
                         "summarize"}

EmptyFetch == fetchRet.status = "list" /\ fetchRet.value = <<>>

OnlyBotsFetched ==
    /\ fetchRet.status = "list"
    /\ fetchRet.value # <<>>
    /\ \A i \in DOMAIN fetchRet.value : fetchRet.value[i].is_bot

\* C7: in the counting commands and in summarize, a fetch that returns no
\* message ends the request with the "no messages found" text and runs no
\* extraction or aggregation; messages of bots only end it with the "no
\* user/text messages" text; both texts differ from the generic failure
\* text, and no leaderboard or summary is made.
C7_NothingToShow ==
    (Done /\ cmd \in CountingAndSummarize) =>
        /\ EmptyFetch =>
              /\ Len(sent) = 1
              /\ sent[1].kind = "no_messages"
              /\ sent[1].text = NoMessagesText(cmd)
              /\ sent[1].text # GenericErrorText(cmd)
              /\ called = {}
              /\ chatLog = <<>>
        /\ OnlyBotsFetched =>
              /\ Len(sent) = 1
              /\ sent[1].kind = "no_user_messages"
              /\ sent[1].text = NoUserMessagesText(cmd)
              /\ sent[1].text # GenericErrorText(cmd)
              /\ called \cap (LeaderboardCalls \cup UserCountCalls
                              \cup {"generate_summary"}) = {}
              /\ chatLog = <<>>

\* summarize over a window without messages
C7_Witness == Done /\ cmd = "summarize" /\ EmptyFetch

ResultKinds == {"user_count", "leaderboard", "global_leaderboard",
                "first_message", "summary", "fallback"}
ErrorKinds == {"forbidden", "generic_error", "invalid_format",
               "invalid_number", "validation", "ollama_error"}
NoDataKinds == {"no_messages", "no_user_messages", "no_text_messages"}

C9_UnclassifiedReported ==
    \A e \in TransportErrors :
        (Done /\ ChannelHistoryRaised(e)) =>
            /\ Len(sent) = 1
            /\ sent[1].kind = "generic_error"
            /\ sent[1].text = GenericErrorText(cmd)
            /\ sent[1].detail = e.desc

\* the images the download of which succeeded
Downloaded == {i \in DOMAIN imgLog : imgLog[i] # "download_failed"}

\* C10: nothing is retried within one summarize request: the history is
\* requested at most once, each selected image is downloaded at most once
\* and goes to the vision model at most once, and only when its download
\* succeeded, and the completion service is called at most once, whatever
\* fails.
C10_NoRetries ==
    cmd = "summarize" =>
        /\ Len(historyLog) <= 1
        /\ Len(downloads) <= ImageQuota
        /\ \A i \in DOMAIN downloads : downloads[i] = image_urls[i]
        /\ Len(visions) = Cardinality(Downloaded)
                            + (IF pc = "vision" THEN 1 ELSE 0)
        /\ Len(chatLog) <= 1

\* a summarization with a failed download, a failed vision call and a
\* failed completion call
C10_Witness ==
    /\ Done
    /\ cmd = "summarize"
    /\ \E i, j \in DOMAIN imgLog :
          /\ imgLog[i] = "download_failed"
          /\ imgLog[j] = "vision_failed"
    /\ Len(chatLog) = 1
    /\ chatLog[1].status = "error"

Returned(f) == fn = f /\ fnDone

\* the tokens that spell a unit, in any case
DayTokens == {"days", "DAYS", "day", "Day"}
HourTokens == {"hours", "Hours", "HOURS", "hour", "Hour", "HOUR"}

InvalidUnitText == "Invalid time unit! Must be 'hours' or 'days'."

\* C11: validate_timeframe accepts a magnitude of days exactly when it is in
\* 1..MAX_DAYS_LOOKBACK and a magnitude of hours exactly when it is in
\* 1..MAX_HOURS_LOOKBACK; a magnitude outside the range is rejected with the
\* range message of its unit, which names the bound of that unit.
C11_MagnitudeBounds ==
    Returned("validate_timeframe") =>
        /\ fnIn.unit \in DayTokens =>
              /\ fnOut.is_valid <=> (1 <= fnIn.timeframe /\ fnIn.timeframe <= 7)
              /\ ~fnOut.is_valid =>
                    /\ fnOut.error.text = "Timeframe must be between 1 and N days!"
                    /\ fnOut.error.bound = 7
        /\ fnIn.unit \in HourTokens =>
              /\ fnOut.is_valid <=> (1 <= fnIn.timeframe /\ fnIn.timeframe <= 168)
              /\ ~fnOut.is_valid =>
                    /\ fnOut.error.text =
                          "Timeframe must be between 1 and N hours (D days)!"
                    /\ fnOut.error.bound = 168

\* zero hours were rejected with the bound of the hours
C11_Witness ==
    /\ Returned("validate_timeframe")
    /\ fnIn = [timeframe |-> 0, unit |-> "hours"]
    /\ ~fnOut.is_valid
    /\ fnOut.error.bound = 168

\* the unit tokens with blanks around them
PaddedDayTokens == {" days "}
PaddedHourTokens == {"hour "}

\* C12 as claimed: the tokens hour, hours, day, days are normalized in any
\* case, and validation rejects every other token, the empty one included,
\* with the invalid-unit failure, for every magnitude.
C12_OnlyUnitTokens ==
    /\ Returned("normalize_time_unit") =>
          /\ fnIn.unit \in HourTokens => fnOut = "hours"
          /\ fnIn.unit \in DayTokens => fnOut = "days"
    /\ (Returned("validate_timeframe")
          /\ fnIn.unit \notin HourTokens \cup DayTokens) =>
          /\ ~fnOut.is_valid
          /\ fnOut.error.text = InvalidUnitText

\* C12 as amended: the tokens hour, hours, day, days are normalized in any
\* case and with blanks around them; the empty token is taken as days and
\* validated as days; every other token is rejected with the invalid-unit
\* failure, for every magnitude.
C12_UnitNormalization ==
    /\ Returned("normalize_time_unit") =>
          /\ fnIn.unit \in HourTokens \cup PaddedHourTokens => fnOut = "hours"
          /\ fnIn.unit \in DayTokens \cup PaddedDayTokens \cup {""} => fnOut = "days"
    /\ Returned("validate_timeframe") =>
          /\ fnIn.unit \notin HourTokens \cup PaddedHourTokens \cup DayTokens
                              \cup PaddedDayTokens \cup {""} =>
                /\ ~fnOut.is_valid
                /\ fnOut.error.text = InvalidUnitText
          /\ fnIn.unit \in PaddedDayTokens \cup {""} =>
                /\ fnOut.is_valid <=> (1 <= fnIn.timeframe /\ fnIn.timeframe <= 7)
                /\ fnOut.error.text # InvalidUnitText
          /\ fnIn.unit \in PaddedHourTokens =>
                /\ fnOut.is_valid <=> (1 <= fnIn.timeframe /\ fnIn.timeframe <= 168)
                /\ fnOut.error.text # InvalidUnitText

\* the empty token was accepted, as three days
C12_Witness ==
    /\ Returned("validate_timeframe")
    /\ fnIn = [timeframe |-> 3, unit |-> ""]
    /\ fnOut.is_valid

\* C13: for a magnitude and a unit that validation accepts,
\* calculate_time_window returns the start now - magnitude days or
\* now - magnitude hours (instants in hours), which is not after now, and
\* the description "past {magnitude} {unit}" with the singular unit word
\* exactly when the magnitude is 1.
C13_TimeWindow ==
    (Returned("calculate_time_window")
       /\ validate_timeframe(fnIn.timeframe, fnIn.unit).is_valid) =>
        /\ fnIn.unit \in DayTokens =>
              /\ fnOut.time_start = ClockNow - 24 * fnIn.timeframe
              /\ fnOut.time_desc.word = IF fnIn.timeframe = 1 THEN "day" ELSE "days"
        /\ fnIn.unit \in HourTokens =>
              /\ fnOut.time_start = ClockNow - fnIn.timeframe
              /\ fnOut.time_desc.word = IF fnIn.timeframe = 1 THEN "hour" ELSE "hours"
        /\ fnOut.time_start <= ClockNow
        /\ fnOut.time_desc.n = fnIn.timeframe
        /\ fnOut.time_desc.word \in {"day", "days", "hour", "hours"}

\* the window of one hour, named in the singular
C13_Witness ==
    /\ Returned("calculate_time_window")
    /\ fnIn = [timeframe |-> 1, unit |-> "Hour"]
    /\ fnOut.time_desc = [n |-> 1, word |-> "hour"]
    /\ fnOut.time_start = ClockNow - 1

\* the position of the (user_id, user_name) group in the order of grouping
GroupPosition(records, row) ==
    CHOOSE g \in DOMAIN groupby_size(records) :
        /\ groupby_size(records)[g].user_id = row.user_id
        /\ groupby_size(records)[g].user_name = row.user_name

\* the number of records of author (id, name)
MembersOf(records, id, name) ==
    Cardinality({i \in DOMAIN records :
                    records[i].user_id = id /\ records[i].user_name = name})

\* one entry per (user_id, user_name) group with its member count, in
\* descending order of count
CountsPerGroup(records, rows) ==
    /\ \A i \in DOMAIN records : \E k \in DOMAIN rows :
          /\ rows[k].user_id = records[i].user_id
          /\ rows[k].user_name = records[i].user_name
    /\ \A k \in DOMAIN rows :
          /\ rows[k].count = MembersOf(records, rows[k].user_id, rows[k].user_name)
          /\ rows[k].count >= 1
    /\ \A k, l \in DOMAIN rows :
          (k # l) => ~(rows[k].user_id = rows[l].user_id
                        /\ rows[k].user_name = rows[l].user_name)
    /\ \A k, l \in DOMAIN rows : k < l => rows[k].count >= rows[l].count

\* C14: count_messages_by_user returns one entry per (author id, author
\* name) group with its member count, in descending order of count, and
\* entries of equal count are in the order in which the grouping produced
\* their groups.
C14_StableCounts ==
    (Returned("count_messages_by_user") /\ fnIn.records # <<>>) =>
        /\ fnOut.exc = NoExc
        /\ CountsPerGroup(fnIn.records, fnOut.rows)
        /\ \A k, l \in DOMAIN fnOut.rows :
              (k < l /\ fnOut.rows[k].count = fnOut.rows[l].count) =>
                  GroupPosition(fnIn.records, fnOut.rows[k])
                      < GroupPosition(fnIn.records, fnOut.rows[l])

\* the number of entries asked for: max_entries when it is given (none for
\* a negative value), all of them otherwise
EntriesAsked(max_entries, n) ==
    IF ~max_entries.given THEN n
    ELSE IF max_entries.value < 0 THEN 0
    ELSE Min(max_entries.value, n)

\* C15: format_leaderboard returns the first max_entries entries of its
\* input when max_entries is given, whatever its value, and all entries when
\* it is not; the ranks are 1, 2, 3, ... in output order, each with the
\* name and the count of the input entry at that place, so that the ranks
\* follow the descending counts.
C15_LeaderboardRanks ==
    Returned("format_leaderboard") =>
        /\ Len(fnOut) = EntriesAsked(fnIn.max_entries, Len(fnIn.user_counts))
        /\ \A k \in DOMAIN fnOut :
              /\ fnOut[k].rank = k
              /\ fnOut[k].user_name = fnIn.user_counts[k].user_name
              /\ fnOut[k].count = fnIn.user_counts[k].count
        /\ \A k, l \in DOMAIN fnOut : k < l => fnOut[k].count >= fnOut[l].count

\* the places of the records with content, and the k-th of them
TextPlaces(messages) == {i \in DOMAIN messages : messages[i].content # ""}
TextPlace(messages, k) ==
    CHOOSE i \in TextPlaces(messages) :
        Cardinality({j \in TextPlaces(messages) : j < i}) = k - 1

\* line l of the output is the "{user_name}: {content}" of record i
IsLineOf(line, record) ==
    line.user_name = record.user_name /\ line.content = record.content

C17_FenceStripping ==
    Returned("clean_json_response") =>
        /\ fnIn.doc \in JsonTexts =>
              /\ fnOut = fnIn.doc
              /\ json_loads(fnOut) = json_loads(fnIn.doc)
              /\ json_loads(fnOut).exc = NoExc
        /\ fnIn.wrap = "none" => fnOut = fnIn.doc

\* the records of human authors, in input order
HumanRecords(records) == SelectSeq(records, LAMBDA r : ~r.is_bot)

RECURSIVE SumOfCounts(_)
SumOfCounts(rows) ==
    IF rows = <<>> THEN 0 ELSE Head(rows).count + SumOfCounts(Tail(rows))

\* C18: for every record list, filter_user_messages_df keeps exactly the
\* records with is_bot false, get_message_stats over the result reports
\* their number as the total, and the counts of count_messages_by_user add
\* up to that total, with no entry for a bot.
C18_CountsPartition ==
    Returned("aggregate") =>
        /\ fnOut.df_users.exc = NoExc
        /\ fnOut.df_users.rows = HumanRecords(fnIn.records)
        /\ \A i \in DOMAIN fnOut.df_users.rows : ~fnOut.df_users.rows[i].is_bot
        /\ fnOut.stats.exc = NoExc
        /\ fnOut.stats.value.total_messages
              = Cardinality({i \in DOMAIN fnIn.records : ~fnIn.records[i].is_bot})
        /\ fnOut.user_counts.exc = NoExc
        /\ SumOfCounts(fnOut.user_counts.rows) = fnOut.stats.value.total_messages
        /\ \A k \in DOMAIN fnOut.user_counts.rows :
              \E i \in DOMAIN fnIn.records :
                  /\ ~fnIn.records[i].is_bot
                  /\ fnIn.records[i].user_id = fnOut.user_counts.rows[k].user_id

\* C19: on an empty record set no analytics function raises and each
\* returns its empty or zero result: the filter no records, the counts and
\* the leaderboard no entries, the stats 0 messages and 0 users, and the
\* percentage 0.0 for every author id.
C19_EmptyRecordSet ==
    /\ (Returned("filter_user_messages_df") /\ fnIn.records = <<>>) =>
          fnOut.exc = NoExc /\ fnOut.rows = <<>>
    /\ (Returned("count_messages_by_user") /\ fnIn.records = <<>>) =>
          fnOut.exc = NoExc /\ fnOut.rows = <<>>
    /\ (Returned("get_message_stats") /\ fnIn.records = <<>>) =>
          /\ fnOut.exc = NoExc
          /\ fnOut.value = [total_messages |-> 0, unique_users |-> 0]
    /\ (Returned("get_user_percentage") /\ fnIn.records = <<>>) =>
          fnOut.num = 0 /\ fnOut.den # 0
    /\ (Returned("format_leaderboard") /\ fnIn.user_counts = <<>>) =>
          fnOut = <<>>

\* the summary parsed from the answer of the completion service
ParsedSummary == SummaryOf(chatLog[1].content).value

\* the parsed summary has one of the three sentiments, in any case
KnownSentiment ==
    /\ "sentiment" \in ParsedSummary.keys
    /\ StrLower(ParsedSummary.sentiment) \in {"positive", "neutral", "negative"}

\* C20: the sentiment shown for a summary is Positive, Neutral or Negative;
\* a parsed response without sentiment key, or with a sentiment that is
\* none of the three, is shown as Neutral, and is still shown as a summary.
C20_SentimentPresented ==
    (Done /\ ChatAnswered /\ chatLog[1].status = "text"
          /\ ParsesAsJson(chatLog[1].content)
          /\ ParsedSummary.type = "dict") =>
        /\ Last(sent).kind = "summary"
        /\ Last(sent).detail.sentiment \in {"Positive", "Neutral", "Negative"}
        /\ ~KnownSentiment => Last(sent).detail.sentiment = "Neutral"

\* record r was built from message m of channel i
IsRecordOf(r, m, i) ==
    /\ r.channel_name = i
    /\ r.user_id = m.user_id
    /\ r.user_name = m.user_name
    /\ r.is_bot = m.is_bot
    /\ r.content = m.content
    /\ r.timestamp = m.created_at

\* the channels visited so far for which the bot may read the history
ReadableVisited == {i \in DOMAIN guildLog : guildLog[i].read_message_history}

\* C21: every record of the guild-wide fetch comes from a visited text
\* channel with the read-history permission and from a message of the
\* default type of that channel, whose name it carries; the channels are
\* visited once each, in order, all of them when the fetch returns; a
\* channel without the permission gets no history request and gives no
\* record.
C21_GuildRecords ==
    cmd = "globaldailycount" =>
        /\ \A k \in DOMAIN messages_data :
              \E i \in ReadableVisited : \E j \in DOMAIN guildLog[i].yielded :
                  /\ guildLog[i].yielded[j].type = "default"
                  /\ IsRecordOf(messages_data[k], guildLog[i].yielded[j], i)
        /\ Len(guildLog) <= nChannels
        /\ \A i \in DOMAIN guildLog : guildLog[i].channel = i
        /\ Len(historyLog) = Cardinality(ReadableVisited)
        /\ \A k \in DOMAIN historyLog : historyLog[k].channel \in ReadableVisited
        /\ \A k, l \in DOMAIN historyLog :
              k # l => historyLog[k].channel # historyLog[l].channel
        /\ \A i \in DOMAIN guildLog :
              ~guildLog[i].read_message_history =>
                  /\ guildLog[i].yielded = <<>>
                  /\ \A k \in DOMAIN messages_data : messages_data[k].channel_name # i
        /\ Done =>
              /\ Len(guildLog) = nChannels
              /\ fetchRet.value = messages_data

\* a guild of two channels: the first without the permission, the second
\* read, with its record returned
C21_Witness ==
    /\ Done
    /\ cmd = "globaldailycount"
    /\ nChannels = 2
    /\ ~guildLog[1].read_message_history
    /\ guildLog[2].read_message_history
    /\ Len(historyLog) = 1
    /\ Len(fetchRet.value) = 1
    /\ fetchRet.value[1].channel_name = 2

\* the timeframe argument has two words, an integer and a unit, that pass
\* validate_timeframe
TimeframeAccepted ==
    LET parts == Split(Strip(arg.timeframe))
    IN  /\ Len(parts) = 2
        /\ parts[1] \in IntLiterals
        /\ validate_timeframe(IntOf(parts[1]), parts[2]).is_valid

\* the fetch returned messages, one of them at least of a human author and
\* with text
TranscriptAvailable ==
    /\ fetchRet.status = "list"
    /\ fetchRet.value # <<>>
    /\ \E i \in DOMAIN fetchRet.value : ~fetchRet.value[i].is_bot
    /\ \E i \in DOMAIN fetchRet.value :
          ~fetchRet.value[i].is_bot /\ fetchRet.value[i].content # ""

\* the calls made so far to the history, the image host, the vision model
\* and the completion service
CollaboratorCalls == <<Len(historyLog), Len(downloads), Len(visions), Len(chatLog)>>

\* C22: in summarize the history is requested only for a timeframe of two
\* words with an integer magnitude that passed validate_timeframe; images
\* are downloaded, described and the completion is asked only after the
\* fetch returned messages of which a non-bot record with text remains;
\* a vision call follows the download of its image; and a request that has
\* ended makes no further call to any of the four collaborators.
C22_GatedSteps ==
    /\ [](cmd = "summarize" =>
            /\ historyLog # <<>> => TimeframeAccepted
            /\ (downloads # <<>> \/ visions # <<>> \/ chatLog # <<>>) =>
                  /\ historyLog # <<>>
                  /\ historyLog[1].ending = NoExc
                  /\ TranscriptAvailable
            /\ Len(visions) <= Len(downloads)
            /\ (Done /\ ~TimeframeAccepted) => CollaboratorCalls = <<0, 0, 0, 0>>
            /\ (Done /\ ~TranscriptAvailable) =>
                  /\ Len(historyLog) <= 1
                  /\ downloads = <<>> /\ visions = <<>> /\ chatLog = <<>>)
    /\ [][(cmd = "summarize" /\ Done) => UNCHANGED CollaboratorCalls]_vars

\* a request that ended at the transcript check: the only message fetched
\* has an image and no text, and nothing was downloaded or asked
C22_Witness ==
    /\ Done
    /\ cmd = "summarize"
    /\ Len(historyLog) = 1
    /\ fetchRet.status = "list"
    /\ \E i \in DOMAIN fetchRet.value :
          /\ ~fetchRet.value[i].is_bot
          /\ ImagesOf(fetchRet.value[i]) # <<>>
    /\ ~TranscriptAvailable
    /\ Last(sent).kind = "no_text_messages"
    /\ downloads = <<>> /\ chatLog = <<>>
====
